---- MODULE Spec2Model ----
(***************************************************************************)
(* Model of the configuration export / import / validation paths of        *)
(* odoo_config_management: MinimalConfigImporter (models/config_importer), *)
(* MinimalConfigExporter (models/config_exporter), YamlFileStorage         *)
(* (models/yaml_storage) and ConfigFactory.validate_import_path            *)
(* (models/config_factory).                                                *)
(*                                                                         *)
(* A source directory is a map from file names to file contents; the       *)
(* Record Store is a map from model names to the list of live records      *)
(* (the position of a record in the list is its id).  A Python mapping is  *)
(* a function from field names to values, so that a missing field is a     *)
(* name outside its DOMAIN.                                                *)
(***************************************************************************)
EXTENDS Integers, Sequences, FiniteSets, TLC

VARIABLES
    files,           \* source directory: file name -> content
    store,           \* Record Store: model name -> sequence of live records
    pc,              \* the import run: "idle" (none since the store last
                     \* changed), "importing", "returned"
    pos,             \* position in import_order of the next type to attempt
    imported_count,  \* local of import_system_configs
    results,         \* local of import_system_configs
    call,            \* the last operation called: "none", "import", "validate",
                     \* "export" ("connect" once the instance was changed)
    result,          \* the value that call returned
    log,             \* events of the current import run or of the last
                     \* export, oldest first
    pre,             \* Record Store as it was when the current run started
    first,           \* Record Store before and after the first import run
    runs,            \* import runs started
    rejects,         \* the store calls the Record Store rejects (raises on)
    advances,        \* live counter advances so far
    exported         \* the exports so far: what each started from, the
                     \* fault it met, what it left and returned

vars == <<files, store, pc, pos, imported_count, results, call, result, log,
          pre, first, runs, rejects, advances, exported>>

(***************************************************************************)
(* Bounds of the model.                                                    *)
(***************************************************************************)
MaxRecs == 2        \* longest record list of the document under study
MaxRuns == 2        \* import runs per behaviour
MaxFaults == 1      \* store calls the Record Store rejects
MaxAdvances == 1    \* live counter advances per behaviour
MaxExports == 2     \* exports per behaviour

(***************************************************************************)
(* Python values.                                                          *)
(***************************************************************************)
EmptyDict == [f \in {} |-> ""]

\* a list element that is not a mapping (a string or a number)
Scalar == [scalar |-> TRUE]

IsMapping(r) == "scalar" \notin DOMAIN r

\* dict.update / ORM write: vals override, the other fields stay
Merge(live, vals) ==
    [f \in DOMAIN live \cup DOMAIN vals |->
        IF f \in DOMAIN vals THEN vals[f] ELSE live[f]]

\* dict.pop(k, None) on a copy
Pop(d, k) == [f \in DOMAIN d \ {k} |-> d[f]]

NoResult == [pending |-> TRUE]

(***************************************************************************)
(* Files.  A file content records what the code can observe of it: whether *)
(* the file exists, how yaml.safe_load ends on it ("error": raises,        *)
(* "none": empty document, "map": a mapping, "other": a list or a scalar), *)
(* the truth value of the parsed value, what the parsed mapping holds      *)
(* under the document's type name ("absent", "none", "int" or "list") and  *)
(* the elements of that list.                                              *)
(***************************************************************************)
Content(exists, parse, truthy, key, recs) ==
    [exists |-> exists, parse |-> parse, truthy |-> truthy, key |-> key,
     recs |-> recs]

Absent == Content(FALSE, "none", FALSE, "absent", <<>>)
Corrupt == Content(TRUE, "error", FALSE, "absent", <<>>)
EmptyFile == Content(TRUE, "none", FALSE, "absent", <<>>)
EmptyMapping == Content(TRUE, "map", FALSE, "absent", <<>>)
NotMapping(truthy) == Content(TRUE, "other", truthy, "absent", <<>>)
OtherKeys == Content(TRUE, "map", TRUE, "absent", <<>>)
KeyNull == Content(TRUE, "map", TRUE, "none", <<>>)
KeyInt == Content(TRUE, "map", TRUE, "int", <<>>)
ListDoc(recs) == Content(TRUE, "map", TRUE, "list", recs)

\* os.path.exists
path_exists(fs, name) == fs[name].exists

\* The parsed value as the callers use it: is it a mapping, its truth
\* value, and what .get(<type name>) finds in it.
Parsed(ismap, truthy, key, recs) ==
    [raised |-> FALSE, ismap |-> ismap, truthy |-> truthy, key |-> key,
     recs |-> recs]

RaisedRead ==
    [raised |-> TRUE, ismap |-> FALSE, truthy |-> FALSE, key |-> "absent",
     recs |-> <<>>]

\* YamlFileStorage.read_yaml: {} for a missing file and for an empty
\* document, the parsed value otherwise; a parse error is re-raised.
read_yaml(fs, name) ==
    LET c == fs[name]
    IN  IF ~c.exists THEN Parsed(TRUE, FALSE, "absent", <<>>)
        ELSE IF c.parse = "error" THEN RaisedRead
        ELSE IF c.parse = "none" THEN Parsed(TRUE, FALSE, "absent", <<>>)
        ELSE Parsed(c.parse = "map", c.truthy, c.key, c.recs)

(***************************************************************************)
(* Record Store: search by field equalities, create, write.                *)
(***************************************************************************)
Models == {"ir.config_parameter", "res.groups", "ir.sequence",
           "ir.module.module", "ir.model.data"}

\* a lookup that never finds anything
search_nothing(st, model, cond) == {}

search(st, model, cond) ==
    {i \in 1..Len(st[model]) :
        \A f \in DOMAIN cond :
            f \in DOMAIN st[model][i] /\ st[model][i][f] = cond[f]}

create(st, model, vals) == [st EXCEPT ![model] = Append(@, vals)]

write(st, model, ids, vals) ==
    [st EXCEPT ![model] =
        [i \in 1..Len(@) |-> IF i \in ids THEN Merge(@[i], vals) ELSE @[i]]]

(***************************************************************************)
(* Events of a run.                                                        *)
(***************************************************************************)
Ev(kind, on, ids, vals) == [ev |-> kind, on |-> on, ids |-> ids, vals |-> vals]

StoreOps == {"search", "create", "write"}

\* the accumulator of a per-type loop
Acc(st, lg) == [store |-> st, imported |-> 0, log |-> lg, raised |-> FALSE]

Logged(a, e) == [a EXCEPT !.log = Append(@, e)]
Counted(a) == [a EXCEPT !.imported = @ + 1]
Raised(a) == [a EXCEPT !.raised = TRUE]

(***************************************************************************)
(* The per-record bodies of the five reconciliation loops.  a is the       *)
(* loop's accumulator, r the list element, f the store call that raises    *)
(* while this record is processed ("none", "search", or "write" for the    *)
(* create/write call; at most one per record).  An exception inside the    *)
(* try block is caught: the record is skipped.  The handler formats its    *)
(* warning with r.get(...), which raises AttributeError when r is not a    *)
(* mapping: that exception leaves the loop and the method.                 *)
(***************************************************************************)

\* _import_config_params without its try/except: a missing key leaves the loop
import_config_params_unguarded(a, r, f) ==
    IF ~IsMapping(r) \/ "key" \notin DOMAIN r THEN Raised(a)
    ELSE
      LET M == "ir.config_parameter"
          cond == [key |-> r["key"]]
          existing == IF f = "search" THEN {} ELSE search(a.store, M, cond)
          a1 == Logged(a, Ev("search", M, existing, cond))
      IN  IF f = "search" \/ "value" \notin DOMAIN r THEN Raised(a1)
          ELSE IF existing # {} THEN
            LET vals == [value |-> r["value"]]
                a2 == Logged(a1, Ev("write", M, existing, vals))
            IN  IF f = "write" THEN Raised(a2)
                ELSE Counted([a2 EXCEPT !.store = write(@, M, existing, vals)])
          ELSE
            LET vals == [key |-> r["key"], value |-> r["value"]]
                a2 == Logged(a1, Ev("create", M, {}, vals))
            IN  IF f = "write" THEN Raised(a2)
                ELSE Counted([a2 EXCEPT !.store = create(@, M, vals)])

\* the body of the loop of _import_config_params
import_config_params(a, r, f) ==
    IF ~IsMapping(r) THEN Raised(a)
    ELSE IF "key" \notin DOMAIN r THEN a
    ELSE
      LET M == "ir.config_parameter"
          cond == [key |-> r["key"]]
          existing == IF f = "search" THEN {} ELSE search(a.store, M, cond)
          a1 == Logged(a, Ev("search", M, existing, cond))
      IN  IF f = "search" \/ "value" \notin DOMAIN r THEN a1
          ELSE IF existing # {} THEN
            LET vals == [value |-> r["value"]]
                a2 == Logged(a1, Ev("write", M, existing, vals))
            IN  IF f = "write" THEN a2
                ELSE Counted([a2 EXCEPT !.store = write(@, M, existing, vals)])
          ELSE
            LET vals == [key |-> r["key"], value |-> r["value"]]
                a2 == Logged(a1, Ev("create", M, {}, vals))
            IN  IF f = "write" THEN a2
                ELSE Counted([a2 EXCEPT !.store = create(@, M, vals)])

\* _import_sequences without the pop: the update carries number_next
import_sequences_clobber(a, r, f) ==
    IF ~IsMapping(r) THEN Raised(a)
    ELSE IF "code" \notin DOMAIN r THEN a
    ELSE
      LET M == "ir.sequence"
          cond == [code |-> r["code"]]
          existing == IF f = "search" THEN {} ELSE search(a.store, M, cond)
          a1 == Logged(a, Ev("search", M, existing, cond))
      IN  IF f = "search" THEN a1
          ELSE IF existing # {} THEN
            LET a2 == Logged(a1, Ev("write", M, existing, r))
            IN  IF f = "write" THEN a2
                ELSE Counted([a2 EXCEPT !.store = write(@, M, existing, r)])
          ELSE
            LET a2 == Logged(a1, Ev("create", M, {}, r))
            IN  IF f = "write" THEN a2
                ELSE Counted([a2 EXCEPT !.store = create(@, M, r)])

\* the body of the loop of _import_sequences
import_sequences(a, r, f) ==
    IF ~IsMapping(r) THEN Raised(a)
    ELSE IF "code" \notin DOMAIN r THEN a
    ELSE
      LET M == "ir.sequence"
          cond == [code |-> r["code"]]
          existing == IF f = "search" THEN {} ELSE search(a.store, M, cond)
          a1 == Logged(a, Ev("search", M, existing, cond))
      IN  IF f = "search" THEN a1
          ELSE IF existing # {} THEN
            LET update_data == Pop(r, "number_next")
                a2 == Logged(a1, Ev("write", M, existing, update_data))
            IN  IF f = "write" THEN a2
                ELSE Counted([a2 EXCEPT
                                !.store = write(@, M, existing, update_data)])
          ELSE
            LET a2 == Logged(a1, Ev("create", M, {}, r))
            IN  IF f = "write" THEN a2
                ELSE Counted([a2 EXCEPT !.store = create(@, M, r)])

\* _import_user_groups creating the group from the whole snapshot record
import_user_groups_full(a, r, f) ==
    IF ~IsMapping(r) THEN Raised(a)
    ELSE IF "name" \notin DOMAIN r THEN a
    ELSE
      LET M == "res.groups"
          cond == [name |-> r["name"]]
          existing == IF f = "search" THEN {} ELSE search(a.store, M, cond)
          a1 == Logged(a, Ev("search", M, existing, cond))
      IN  IF f = "search" \/ existing # {} THEN a1
          ELSE
            LET a2 == Logged(a1, Ev("create", M, {}, r))
            IN  IF f = "write" THEN a2
                ELSE Counted([a2 EXCEPT !.store = create(@, M, r)])

\* the body of the loop of _import_user_groups
import_user_groups(a, r, f) ==
    IF ~IsMapping(r) THEN Raised(a)
    ELSE IF "name" \notin DOMAIN r THEN a
    ELSE
      LET M == "res.groups"
          cond == [name |-> r["name"]]
          existing == IF f = "search" THEN {} ELSE search(a.store, M, cond)
          a1 == Logged(a, Ev("search", M, existing, cond))
      IN  IF f = "search" \/ existing # {} THEN a1
          ELSE
            LET vals == [name |-> r["name"]]
                a2 == Logged(a1, Ev("create", M, {}, vals))
            IN  IF f = "write" THEN a2
                ELSE Counted([a2 EXCEPT !.store = create(@, M, vals)])

\* _import_external_ids looking the record up by name alone
import_external_ids_by_name(a, r, f) ==
    IF ~IsMapping(r) THEN Raised(a)
    ELSE IF "module" \notin DOMAIN r \/ "name" \notin DOMAIN r THEN a
    ELSE
      LET M == "ir.model.data"
          cond == [name |-> r["name"]]
          existing == IF f = "search" THEN {} ELSE search(a.store, M, cond)
          a1 == Logged(a, Ev("search", M, existing, cond))
      IN  IF f = "search" THEN a1
          ELSE IF existing # {} THEN
            LET a2 == Logged(a1, Ev("write", M, existing, r))
            IN  IF f = "write" THEN a2
                ELSE Counted([a2 EXCEPT !.store = write(@, M, existing, r)])
          ELSE
            LET a2 == Logged(a1, Ev("create", M, {}, r))
            IN  IF f = "write" THEN a2
                ELSE Counted([a2 EXCEPT !.store = create(@, M, r)])

\* the body of the loop of _import_external_ids
import_external_ids(a, r, f) ==
    IF ~IsMapping(r) THEN Raised(a)
    ELSE IF "module" \notin DOMAIN r \/ "name" \notin DOMAIN r THEN a
    ELSE
      LET M == "ir.model.data"
          cond == [module |-> r["module"], name |-> r["name"]]
          existing == IF f = "search" THEN {} ELSE search(a.store, M, cond)
          a1 == Logged(a, Ev("search", M, existing, cond))
      IN  IF f = "search" THEN a1
          ELSE IF existing # {} THEN
            LET a2 == Logged(a1, Ev("write", M, existing, r))
            IN  IF f = "write" THEN a2
                ELSE Counted([a2 EXCEPT !.store = write(@, M, existing, r)])
          ELSE
            LET a2 == Logged(a1, Ev("create", M, {}, r))
            IN  IF f = "write" THEN a2
                ELSE Counted([a2 EXCEPT !.store = create(@, M, r)])

\* _import_module_states applying the snapshot state where it differs
import_module_states_apply(a, r, f) ==
    IF ~IsMapping(r) THEN Raised(a)
    ELSE IF "name" \notin DOMAIN r THEN a
    ELSE
      LET M == "ir.module.module"
          cond == [name |-> r["name"]]
          existing == IF f = "search" THEN {} ELSE search(a.store, M, cond)
          a1 == Logged(a, Ev("search", M, existing, cond))
      IN  IF f = "search" \/ existing = {} THEN a1
          ELSE IF "state" \notin DOMAIN r THEN a1
          ELSE
            LET vals == [state |-> r["state"]]
                a2 == Logged(a1, Ev("write", M, existing, vals))
            IN  Counted([a2 EXCEPT !.store = write(@, M, existing, vals)])

\* _import_module_states counting a module only when its state differs
import_module_states_on_drift(a, r, f) ==
    IF ~IsMapping(r) THEN Raised(a)
    ELSE IF "name" \notin DOMAIN r THEN a
    ELSE
      LET M == "ir.module.module"
          cond == [name |-> r["name"]]
          existing == IF f = "search" THEN {} ELSE search(a.store, M, cond)
          a1 == Logged(a, Ev("search", M, existing, cond))
      IN  IF f = "search" \/ existing = {} THEN a1
          ELSE IF "state" \notin DOMAIN r THEN a1
          ELSE IF \A i \in existing : a.store[M][i]["state"] = r["state"] THEN a1
          ELSE Counted(a1)

\* the body of the loop of _import_module_states: the live state is read
\* and compared, nothing is written
import_module_states(a, r, f) ==
    IF ~IsMapping(r) THEN Raised(a)
    ELSE IF "name" \notin DOMAIN r THEN a
    ELSE
      LET M == "ir.module.module"
          cond == [name |-> r["name"]]
          existing == IF f = "search" THEN {} ELSE search(a.store, M, cond)
          a1 == Logged(a, Ev("search", M, existing, cond))
      IN  IF f = "search" \/ existing = {} THEN a1
          ELSE IF "state" \notin DOMAIN r THEN a1
          ELSE Counted(a1)

\* import_methods: the routine of a configuration type
import_method(t, a, r, f) ==
    CASE t = "ir_config_parameters" -> import_config_params(a, r, f)
      [] t = "ir_sequences" -> import_sequences(a, r, f)
      [] t = "res_groups" -> import_user_groups(a, r, f)
      [] t = "ir_model_data" -> import_external_ids(a, r, f)
      [] t = "module_states" -> import_module_states(a, r, f)

\* the store call that raises while record i of type t is processed
FaultAt(rej, t, i) ==
    IF \E x \in rej : x.type = t /\ x.at = i
    THEN (CHOOSE x \in rej : x.type = t /\ x.at = i).op
    ELSE "none"

\* "for x in data": the records in list order, until an exception leaves
\* the loop
RECURSIVE for_each(_, _, _, _, _)
for_each(t, a, recs, i, rej) ==
    IF i > Len(recs) \/ a.raised THEN a
    ELSE for_each(t, import_method(t, a, recs[i], FaultAt(rej, t, i)),
                  recs, i + 1, rej)

(***************************************************************************)
(* MinimalConfigImporter._import_config_type and import_system_configs.    *)
(***************************************************************************)
\* the order with its last two types exchanged
import_order_swapped ==
    <<"ir_config_parameters", "res_groups", "ir_sequences", "ir_model_data",
      "module_states">>

import_order ==
    <<"ir_config_parameters", "res_groups", "ir_sequences", "module_states",
      "ir_model_data">>

Types == {import_order[i] : i \in 1..Len(import_order)}

ManifestFile == "manifest.yml"

\* f"{source_path}/{config_type}.yml"
FileOf(t) ==
    CASE t = "ir_config_parameters" -> "ir_config_parameters.yml"
      [] t = "res_groups" -> "res_groups.yml"
      [] t = "ir_sequences" -> "ir_sequences.yml"
      [] t = "module_states" -> "module_states.yml"
      [] t = "ir_model_data" -> "ir_model_data.yml"

ModelOf(t) ==
    CASE t = "ir_config_parameters" -> "ir.config_parameter"
      [] t = "res_groups" -> "res.groups"
      [] t = "ir_sequences" -> "ir.sequence"
      [] t = "module_states" -> "ir.module.module"
      [] t = "ir_model_data" -> "ir.model.data"

\* the result for a type whose document is not in the directory
FileNotFound_fails(t, st, lg) ==
    [res |-> [success |-> FALSE, config_type |-> t,
              error |-> "File not found"],
     store |-> st,
     log |-> Append(lg, Ev("end", t, {}, [success |-> FALSE]))]

FileNotFound(t, st, lg) ==
    [res |-> [success |-> TRUE, config_type |-> t, imported_records |-> 0,
              message |-> "File not found, skipping"],
     store |-> st,
     log |-> Append(lg, Ev("end", t, {}, [success |-> TRUE]))]

TypeOk(t, n, st, lg) ==
    [res |-> [success |-> TRUE, config_type |-> t, imported_records |-> n],
     store |-> st,
     log |-> Append(lg, Ev("end", t, {}, [success |-> TRUE]))]

\* the exception is swallowed: the type reports success with no record
TypeFailed_swallowed(t, err, st, lg) ==
    [res |-> [success |-> TRUE, config_type |-> t, imported_records |-> 0],
     store |-> st,
     log |-> Append(lg, Ev("end", t, {}, [success |-> TRUE]))]

TypeFailed(t, err, st, lg) ==
    [res |-> [success |-> FALSE, config_type |-> t, error |-> err],
     store |-> st,
     log |-> Append(lg, Ev("end", t, {}, [success |-> FALSE]))]

\* _import_config_type taking whatever is not a list of records for an
\* empty list
import_config_type_lenient(t, fs, st, lg, rej) ==
    LET lg0 == Append(lg, Ev("begin", t, {}, EmptyDict))
    IN  IF ~path_exists(fs, FileOf(t)) THEN FileNotFound(t, st, lg0)
        ELSE
          LET data == read_yaml(fs, FileOf(t))
              lg1 == Append(lg0, Ev("read", FileOf(t), {}, EmptyDict))
          IN  IF data.raised THEN TypeFailed(t, "yaml: cannot parse", st, lg1)
              ELSE
                LET config_data ==
                        IF data.ismap /\ data.key = "list" THEN data.recs
                        ELSE <<>>
                    a == for_each(t, Acc(st, lg1), config_data, 1, rej)
                IN  IF a.raised THEN
                      TypeFailed(t, "object has no attribute 'get'",
                                 a.store, a.log)
                    ELSE TypeOk(t, a.imported, a.store, a.log)

\* _import_config_type: one type of the order, from its document to its
\* result; every exception below it ends as a failure result
import_config_type(t, fs, st, lg, rej) ==
    LET lg0 == Append(lg, Ev("begin", t, {}, EmptyDict))
    IN  IF ~path_exists(fs, FileOf(t)) THEN FileNotFound(t, st, lg0)
        ELSE
          LET data == read_yaml(fs, FileOf(t))
              lg1 == Append(lg0, Ev("read", FileOf(t), {}, EmptyDict))
          IN  IF data.raised THEN TypeFailed(t, "yaml: cannot parse", st, lg1)
              ELSE IF ~data.ismap THEN
                TypeFailed(t, "object has no attribute 'get'", st, lg1)
              ELSE IF data.key \in {"none", "int"} THEN
                TypeFailed(t, "object is not iterable", st, lg1)
              ELSE
                LET config_data == IF data.key = "list" THEN data.recs ELSE <<>>
                    a == for_each(t, Acc(st, lg1), config_data, 1, rej)
                IN  IF a.raised THEN
                      TypeFailed(t, "object has no attribute 'get'",
                                 a.store, a.log)
                    ELSE TypeOk(t, a.imported, a.store, a.log)

ManifestError ==
    [success |-> FALSE, error |-> "No manifest file found or invalid manifest"]

\* no check of the manifest at all
ManifestOk_unchecked(manifest) == TRUE

\* "if not manifest" is not taken: the parsed manifest is truthy
ManifestOk(manifest) == manifest.truthy

\* the call returns: pc, the returned value, and the history of the first run
Return(res, run, before, after) ==
    /\ pc' = "returned"
    /\ result' = res
    /\ first' = IF run = 1 THEN [pre |-> before, post |-> after] ELSE first

\* import_system_configs, up to the loop over import_order
ImportStart ==
    /\ pc \in {"idle", "returned"}
    /\ runs < MaxRuns
    /\ call' = "import"
    /\ runs' = runs + 1
    /\ pre' = store
    /\ log' = <<Ev("read", ManifestFile, {}, EmptyDict)>>
    /\ results' = <<>>
    /\ imported_count' = 0
    /\ pos' = 1
    /\ LET manifest == read_yaml(files, ManifestFile)
       IN  IF manifest.raised THEN
             Return([success |-> FALSE, error |-> "yaml: cannot parse"],
                    runs', store, store)
           ELSE IF ~ManifestOk(manifest) THEN
             Return(ManifestError, runs', store, store)
           ELSE /\ pc' = "importing"
                /\ result' = NoResult
                /\ first' = first
    /\ UNCHANGED <<files, store, rejects, advances, exported>>

\* one iteration of the loop over import_order, and the return that follows
\* the last one or the first failure
ImportNextType ==
    /\ pc = "importing"
    /\ LET config_type == import_order[pos]
           r == import_config_type(config_type, files, store, log, rejects)
       IN  /\ store' = r.store
           /\ log' = r.log
           /\ results' = Append(results, r.res)
           /\ IF r.res.success THEN
                /\ imported_count' = imported_count + r.res.imported_records
                /\ IF pos = Len(import_order) THEN
                     /\ pos' = pos
                     /\ Return([success |-> TRUE,
                                imported_config_types |-> Len(import_order),
                                total_imported_records |-> imported_count',
                                results |-> results'],
                               runs, pre, store')
                   ELSE /\ pos' = pos + 1
                        /\ UNCHANGED <<pc, result, first>>
              ELSE
                /\ imported_count' = imported_count
                /\ pos' = pos
                /\ Return([success |-> FALSE,
                           failed_config_type |-> config_type,
                           error |-> r.res.error,
                           imported_count |-> imported_count],
                          runs, pre, store')
    /\ UNCHANGED <<files, pre, runs, rejects, advances, call, exported>>

(***************************************************************************)
(* ConfigFactory.validate_import_path.                                     *)
(***************************************************************************)
\* no file is required
required_files_none == <<>>

required_files == <<ManifestFile>>

optional_files ==
    <<"ir_config_parameters.yml", "ir_sequences.yml", "res_groups.yml",
      "ir_model_data.yml", "module_states.yml">>

\* [x for x in names if not os.path.exists(x)]
RECURSIVE Missing(_, _)
Missing(fs, names) ==
    IF names = <<>> THEN <<>>
    ELSE IF path_exists(fs, Head(names)) THEN Missing(fs, Tail(names))
    ELSE <<Head(names)>> \o Missing(fs, Tail(names))

validate_import_path(fs) ==
    LET missing_required == Missing(fs, required_files)
        missing_optional == Missing(fs, optional_files)
    IN  IF missing_required # <<>> THEN
          [valid |-> FALSE,
           message |-> [text |-> "Required files missing: ",
                        names |-> missing_required]]
        ELSE
          [valid |-> TRUE,
           message |-> [text |-> "Import path is valid", names |-> <<>>],
           missing_optional |-> missing_optional]

Validate ==
    /\ pc \in {"idle", "returned"}
    /\ call' = "validate"
    /\ result' = validate_import_path(files)
    /\ UNCHANGED <<files, store, pc, pos, imported_count, results, log, pre,
                   first, runs, rejects, advances, exported>>

(***************************************************************************)
(* MinimalConfigExporter.  A projection reads every live record of a model *)
(* and keeps the listed fields; export_system_configs runs the statements  *)
(* of export_plan in order, until one raises.                              *)
(***************************************************************************)
\* Python None / the False that the ORM returns for a field that is not set
None == "<None>"

\* record.field
Attr(r, f) == IF f \in DOMAIN r THEN r[f] ELSE None

Project(r, fields) == [f \in fields |-> Attr(r, f)]

\* the ids of a recordset in the default order
RECURSIVE Sorted(_)
Sorted(ids) ==
    IF ids = {} THEN <<>>
    ELSE LET i == CHOOSE x \in ids : \A y \in ids : x <= y
         IN  <<i>> \o Sorted(ids \ {i})

\* self.env[model].search([])
search_all(st, model) == 1..Len(st[model])

ParamFields == {"key", "value"}

\* _export_config_params
export_config_params(st) ==
    LET M == "ir.config_parameter"
    IN  [i \in 1..Len(st[M]) |-> Project(st[M][i], ParamFields)]

SequenceFields ==
    {"name", "code", "prefix", "suffix", "padding", "number_next",
     "number_increment", "active"}

\* _export_sequences leaving number_next out
export_sequences_no_counter(st) ==
    LET M == "ir.sequence"
    IN  [i \in 1..Len(st[M]) |->
            Project(st[M][i], SequenceFields \ {"number_next"})]

\* _export_sequences
export_sequences(st) ==
    LET M == "ir.sequence"
    IN  [i \in 1..Len(st[M]) |-> Project(st[M][i], SequenceFields)]

\* f"{external_id.module}.{external_id.name}"
XmlId(x) == [module |-> x["module"], name |-> x["name"]]

\* the external ids of the implied groups: for each, the first
\* ir.model.data record of model res.groups and that res_id, if any
RECURSIVE implied_xids(_, _)
implied_xids(st, ids) ==
    IF ids = <<>> THEN <<>>
    ELSE
      LET M == "ir.model.data"
          external_id ==
              search(st, M, [model |-> "res.groups", res_id |-> Head(ids)])
      IN  (IF external_id = {} THEN <<>>
           ELSE <<XmlId(st[M][Sorted(external_id)[1]])>>)
              \o implied_xids(st, Tail(ids))

\* _export_user_groups
export_user_groups(st) ==
    LET M == "res.groups"
    IN  [i \in 1..Len(st[M]) |->
            [name |-> Attr(st[M][i], "name"),
             category_id |-> Attr(st[M][i], "category_id"),
             implied_ids |->
                 IF "implied_ids" \in DOMAIN st[M][i]
                 THEN implied_xids(st, st[M][i]["implied_ids"]) ELSE <<>>,
             users |->
                 IF "users" \in DOMAIN st[M][i] THEN st[M][i]["users"]
                 ELSE <<>>]]

ExternalIdFields == {"module", "name", "model", "res_id", "noupdate"}

\* _export_external_ids
export_external_ids(st) ==
    LET M == "ir.model.data"
    IN  [i \in 1..Len(st[M]) |-> Project(st[M][i], ExternalIdFields)]

ModuleFields == {"name", "state", "auto_install", "sequence"}

ExportedStates == {"installed", "to_install", "to_upgrade"}

IsExportedState(r) == Attr(r, "state") \in ExportedStates

\* _export_module_states
export_module_states(st) ==
    LET M == "ir.module.module"
        kept == SelectSeq(st[M], IsExportedState)
    IN  [i \in 1..Len(kept) |-> Project(kept[i], ModuleFields)]

\* the projection of each configuration type
export_method(t, st) ==
    CASE t = "ir_config_parameters" -> export_config_params(st)
      [] t = "ir_sequences" -> export_sequences(st)
      [] t = "res_groups" -> export_user_groups(st)
      [] t = "ir_model_data" -> export_external_ids(st)
      [] t = "module_states" -> export_module_states(st)

\* the keys of `configs`, in insertion order
config_types ==
    <<"ir_config_parameters", "ir_sequences", "res_groups", "ir_model_data",
      "module_states">>

\* ir.config_parameter get_param: the value of the parameter, False if none
get_param(st, key) ==
    LET found == search(st, "ir.config_parameter", [key |-> key])
    IN  IF found = {} THEN None
        ELSE Attr(st["ir.config_parameter"][Sorted(found)[1]], "value")

\* _get_database_uuid generating and storing a uuid on every call
get_database_uuid_regenerate(a, new, failing) ==
    LET M == "ir.config_parameter"
        found == search(a.store, M, [key |-> "database.uuid"])
        a1 == Logged(a, Ev("search", M, found, [key |-> "database.uuid"]))
    IN  IF failing THEN [acc |-> a, uuid |-> None]
        ELSE IF found # {} THEN
          [acc |-> [Logged(a1, Ev("write", M, found, [value |-> new]))
                       EXCEPT !.store = write(@, M, found, [value |-> new])],
           uuid |-> new]
        ELSE
          LET vals == [key |-> "database.uuid", value |-> new]
          IN  [acc |-> [Logged(a1, Ev("create", M, {}, vals))
                           EXCEPT !.store = create(@, M, vals)],
               uuid |-> new]

\* _get_database_uuid: the stored uuid; if there is none (or an empty
\* one) a new one is generated and stored with set_param.  a is the
\* accumulator of the export, new the generated uuid, failing whether a
\* call on the store raises (the bare except then returns None).
get_database_uuid(a, new, failing) ==
    LET M == "ir.config_parameter"
        found == search(a.store, M, [key |-> "database.uuid"])
        db_uuid == get_param(a.store, "database.uuid")
        a1 == Logged(a, Ev("search", M, found, [key |-> "database.uuid"]))
    IN  IF failing THEN [acc |-> a, uuid |-> None]
        ELSE IF db_uuid \notin {None, ""} THEN [acc |-> a1, uuid |-> db_uuid]
        ELSE IF found # {} THEN
          [acc |-> [Logged(a1, Ev("write", M, found, [value |-> new]))
                       EXCEPT !.store = write(@, M, found, [value |-> new])],
           uuid |-> new]
        ELSE
          LET vals == [key |-> "database.uuid", value |-> new]
          IN  [acc |-> [Logged(a1, Ev("create", M, {}, vals))
                           EXCEPT !.store = create(@, M, vals)],
               uuid |-> new]

\* what manifest.yml holds once written: a non-empty mapping without any
\* type name as key (export_date and odoo_version are left out)
ManifestDoc(manifest) ==
    [exists |-> TRUE, parse |-> "map", truthy |-> TRUE, key |-> "absent",
     recs |-> <<>>, manifest |-> manifest]

\* YamlFileStorage.write_yaml
write_yaml(fs, name, content) == [fs EXCEPT ![name] = content]

\* a statement of export_system_configs
Step(do, on) == [do |-> do, on |-> on]

\* each document written as soon as its type is projected
export_plan_interleaved ==
    <<Step("project", "ir_config_parameters"),
      Step("write", "ir_config_parameters"),
      Step("project", "ir_sequences"), Step("write", "ir_sequences"),
      Step("project", "res_groups"), Step("write", "res_groups"),
      Step("project", "ir_model_data"), Step("write", "ir_model_data"),
      Step("project", "module_states"), Step("write", "module_states"),
      Step("manifest", "manifest")>>

\* the statements of export_system_configs in program order: the five
\* projections of the dict literal, the loop of writes, the manifest
export_plan ==
    <<Step("project", "ir_config_parameters"), Step("project", "ir_sequences"),
      Step("project", "res_groups"), Step("project", "ir_model_data"),
      Step("project", "module_states"),
      Step("write", "ir_config_parameters"), Step("write", "ir_sequences"),
      Step("write", "res_groups"), Step("write", "ir_model_data"),
      Step("write", "module_states"),
      Step("manifest", "manifest")>>

NoFault == Step("none", "none")

\* the accumulator of an export
ExportAcc(st, fs) ==
    [store |-> st, files |-> fs, configs |-> [t \in {} |-> <<>>],
     log |-> <<>>, raised |-> FALSE, error |-> NoFault, total |-> 0]

RECURSIVE SumLen(_, _)
SumLen(configs, ts) ==
    IF ts = {} THEN 0
    ELSE LET t == CHOOSE x \in ts : TRUE
         IN  Len(configs[t]) + SumLen(configs, ts \ {t})

Extend(configs, t, data) ==
    [x \in DOMAIN configs \cup {t} |-> IF x = t THEN data ELSE configs[x]]

\* one statement.  fault is the statement that raises: a projection, a
\* write_yaml (the file is then not written), or Step("uuid", ...) for a
\* store call of _get_database_uuid, whose exception is swallowed.
export_step(a, s, fault, new) ==
    IF s.do = "project" THEN
      IF fault = s THEN [a EXCEPT !.raised = TRUE, !.error = s]
      ELSE [Logged(a, Ev("project", s.on,
                         search_all(a.store, ModelOf(s.on)), EmptyDict))
               EXCEPT !.configs = Extend(@, s.on, export_method(s.on, a.store))]
    ELSE IF s.do = "write" THEN
      IF fault = s THEN [a EXCEPT !.raised = TRUE, !.error = s]
      ELSE [Logged(a, Ev("write_yaml", FileOf(s.on), {}, EmptyDict))
               EXCEPT !.files = write_yaml(@, FileOf(s.on),
                                           ListDoc(a.configs[s.on]))]
    ELSE
      LET u == get_database_uuid(a, new, fault = Step("uuid", "database.uuid"))
          total_records == SumLen(a.configs, DOMAIN a.configs)
          manifest == [database_uuid |-> u.uuid,
                       config_types |-> config_types,
                       total_records |-> total_records]
      IN  IF fault = s THEN [u.acc EXCEPT !.raised = TRUE, !.error = s]
          ELSE [Logged(u.acc, Ev("write_yaml", ManifestFile, {}, EmptyDict))
                   EXCEPT !.files = write_yaml(@, ManifestFile,
                                               ManifestDoc(manifest)),
                          !.total = total_records]

RECURSIVE run_plan(_, _, _, _, _)
run_plan(a, plan, i, fault, new) ==
    IF i > Len(plan) \/ a.raised THEN a
    ELSE run_plan(export_step(a, plan[i], fault, new), plan, i + 1, fault, new)

\* export_system_configs: what it leaves and what it returns
export_system_configs(st, fs, fault, new) ==
    LET a == run_plan(ExportAcc(st, fs), export_plan, 1, fault, new)
    IN  [store |-> a.store, files |-> a.files, log |-> a.log,
         res |-> IF a.raised THEN [success |-> FALSE, error |-> a.error]
                 ELSE [success |-> TRUE,
                       exported_configs |-> Cardinality(DOMAIN a.configs),
                       total_records |-> a.total]]

\* the statements that may raise
ExportFaults ==
    {NoFault, Step("uuid", "database.uuid")}
        \cup {export_plan[i] : i \in 1..Len(export_plan)}

\* the values uuid.uuid4() may return
NewUuids == {"uuid-a", "uuid-b"}

\* One call of export_system_configs.  A statement may raise in the first
\* export of a behaviour; the exports after it run undisturbed.
Export ==
    /\ pc \in {"idle", "returned"}
    /\ Len(exported) < MaxExports
    /\ \E fault \in (IF exported = <<>> THEN ExportFaults ELSE {NoFault}),
          new \in NewUuids :
          LET x == export_system_configs(store, files, fault, new)
          IN  /\ store' = x.store
              /\ files' = x.files
              /\ log' = x.log
              /\ result' = x.res
              /\ exported' = Append(exported,
                                    [pre |-> store, dir |-> files,
                                     fault |-> fault, post |-> x.store,
                                     res |-> x.res])
    /\ call' = "export"
    /\ pc' = "idle"
    /\ UNCHANGED <<pos, imported_count, results, pre, first, runs, rejects,
                   advances>>

(***************************************************************************)
(* The environment: between two imports a live sequence hands out a number. *)
(***************************************************************************)
AdvanceSequence ==
    /\ pc = "returned"
    /\ runs \in 1..(MaxRuns - 1)
    /\ advances < MaxAdvances
    /\ \E i \in 1..Len(store["ir.sequence"]) :
         LET s == store["ir.sequence"][i]
         IN  /\ "number_next" \in DOMAIN s
             /\ "number_increment" \in DOMAIN s
             /\ store' = [store EXCEPT !["ir.sequence"][i]["number_next"] =
                                          @ + s["number_increment"]]
    /\ advances' = advances + 1
    /\ pc' = "idle"
    /\ UNCHANGED <<files, pos, imported_count, results, call, result, log,
                   pre, first, runs, rejects, exported>>

(***************************************************************************)
(* Inputs: the records a document may list, the documents a directory may  *)
(* hold, and the Record Stores an import may start from.                   *)
(***************************************************************************)
ParamRec(k, v) == [key |-> k, value |-> v]

SeqRec(code, prefix, nn, inc) ==
    [name |-> "Sequence", code |-> code, prefix |-> prefix, suffix |-> "",
     padding |-> 4, number_next |-> nn, number_increment |-> inc,
     active |-> TRUE]

GroupRec(name, category, implied, users) ==
    [name |-> name, category_id |-> category, implied_ids |-> implied,
     users |-> users]

XidRec(module, name, model, res_id, noupdate) ==
    [module |-> module, name |-> name, model |-> model, res_id |-> res_id,
     noupdate |-> noupdate]

ModRec(name, state) ==
    [name |-> name, state |-> state, auto_install |-> FALSE, sequence |-> 100]

\* a well-formed record of each type
GoodRec(t) ==
    CASE t = "ir_config_parameters" -> ParamRec("k1", "v1")
      [] t = "res_groups" ->
           GroupRec("g1", "Cat", <<"base.group_user">>, <<"admin">>)
      [] t = "ir_sequences" -> SeqRec("S1", "A", 10, 1)
      [] t = "module_states" -> ModRec("base", "to_upgrade")
      [] t = "ir_model_data" -> XidRec("m", "n1", "res.groups", 1, FALSE)

\* the field the routine of each type looks its records up by
KeyField(t) ==
    CASE t = "ir_config_parameters" -> "key"
      [] t = "res_groups" -> "name"
      [] t = "ir_sequences" -> "code"
      [] t = "module_states" -> "name"
      [] t = "ir_model_data" -> "name"

\* well-formed records: a second record with the key of the first and
\* other values, and a record with another key (for an external id also
\* one of the same name in another module)
MoreGood(t) ==
    CASE t = "ir_config_parameters" ->
           {ParamRec("k1", "v2"), ParamRec("k2", "v1")}
      [] t = "res_groups" ->
           {GroupRec("g1", "Other", <<>>, <<>>),
            GroupRec("g2", "Cat", <<>>, <<"admin">>)}
      [] t = "ir_sequences" ->
           {SeqRec("S1", "B", 99, 1), SeqRec("S2", "A", 10, 1)}
      [] t = "module_states" ->
           {ModRec("base", "installed"), ModRec("ghost", "installed")}
      [] t = "ir_model_data" ->
           {XidRec("m", "n1", "res.groups", 2, TRUE),
            XidRec("m", "n2", "ir.sequence", 1, FALSE),
            XidRec("m2", "n1", "res.groups", 3, FALSE)}

\* records with a missing field
Faulty(t) ==
    {Pop(GoodRec(t), KeyField(t))}
        \cup (IF t = "ir_config_parameters"
              THEN {Pop(GoodRec(t), "value")} ELSE {})
        \cup (IF t = "module_states"
              THEN {Pop(GoodRec(t), "state")} ELSE {})

WellFormedRecs(t) == {GoodRec(t)} \cup MoreGood(t)

Pool(t) == WellFormedRecs(t) \cup Faulty(t) \cup {Scalar}

ListsOver(S) == UNION {[1..n -> S] : n \in 0..MaxRecs}

GoodDoc(t) == ListDoc(<<GoodRec(t)>>)

MixedDoc(t) == ListDoc(<<GoodRec(t), Pop(GoodRec(t), KeyField(t))>>)

\* documents that are not a mapping holding a list under the type name
Malformed ==
    {Corrupt, EmptyFile, EmptyMapping, NotMapping(TRUE), OtherKeys, KeyNull,
     KeyInt}

RichDocs(t) == Malformed \cup {ListDoc(l) : l \in ListsOver(Pool(t))}

ValidManifest == OtherKeys

Manifests ==
    {Absent, Corrupt, EmptyFile, EmptyMapping, NotMapping(FALSE),
     NotMapping(TRUE), ValidManifest}

FileNames == {ManifestFile} \cup {FileOf(t) : t \in Types}

\* a database with nothing configured yet
FreshStore ==
    [m \in Models |->
        IF m = "ir.module.module" THEN <<ModRec("base", "installed")>>
        ELSE <<>>]

\* a database in use; sequence codes are not unique in the store
LiveStore ==
    [m \in Models |->
        CASE m = "ir.config_parameter" ->
               <<ParamRec("k1", "live"), ParamRec("database.uuid", "u1")>>
          [] m = "res.groups" ->
               <<GroupRec("g1", "Live", <<"base.group_system">>, <<"alice">>)>>
          [] m = "ir.sequence" ->
               <<SeqRec("S1", "LIVE", 25, 1), SeqRec("S1", "ALT", 7, 5)>>
          [] m = "ir.module.module" ->
               <<ModRec("base", "installed"), ModRec("sale", "uninstalled")>>
          [] m = "ir.model.data" ->
               <<XidRec("m", "n1", "res.groups", 7, FALSE)>>]

Stores == {FreshStore, LiveStore}

\* any subset of the five documents, under any manifest
TypeOfFile(n) == CHOOSE t \in Types : FileOf(t) = n

PartialDirs ==
    {[n \in FileNames |->
        IF n = ManifestFile THEN m
        ELSE IF TypeOfFile(n) \in present THEN GoodDoc(TypeOfFile(n))
        ELSE Absent] :
      m \in Manifests, present \in SUBSET Types}

\* the directory whose document of type t is d, among the documents rest
DirWith(t, d, rest(_)) ==
    [n \in FileNames |->
        IF n = ManifestFile THEN ValidManifest
        ELSE IF n = FileOf(t) THEN d
        ELSE rest(TypeOfFile(n))]

\* one document of any shape among well-formed documents
FocusDirs ==
    UNION {{DirWith(t, d, GoodDoc) : d \in RichDocs(t)} : t \in Types}

\* one document that does not yield a list, among documents that each
\* hold a record to skip
AbortDirs ==
    UNION {{DirWith(t, d, MixedDoc) : d \in Malformed} : t \in Types}

\* two well-formed records with different keys in every document
TwoDoc(t) ==
    ListDoc(<<GoodRec(t),
              CHOOSE r \in MoreGood(t) : r[KeyField(t)] # GoodRec(t)[KeyField(t)]>>)

TwoDir == DirWith("ir_sequences", TwoDoc("ir_sequences"), TwoDoc)

\* the store calls that may be rejected: the search, or the create/write,
\* made for a record of TwoDir
Rejections ==
    {[type |-> t, at |-> i, op |-> o] :
        t \in Types, i \in 1..2, o \in {"search", "write"}}

RejectSets == {R \in SUBSET Rejections : Cardinality(R) \in 1..MaxFaults}

Init ==
    /\ \/ /\ files \in PartialDirs \cup FocusDirs \cup AbortDirs
          /\ rejects = {}
       \/ /\ files = TwoDir
          /\ rejects \in RejectSets
    /\ store \in Stores
    /\ pc = "idle"
    /\ pos = 1
    /\ imported_count = 0
    /\ results = <<>>
    /\ call = "none"
    /\ result = NoResult
    /\ log = <<>>
    /\ pre = store
    /\ first = [pre |-> store, post |-> store]
    /\ runs = 0
    /\ advances = 0
    /\ exported = <<>>

Next ==
    \/ ImportStart
    \/ ImportNextType
    \/ Validate
    \/ AdvanceSequence

Spec == Init /\ [][Next]_vars

(***************************************************************************)
(* Export and round trip: an instance is exported to a directory, and the  *)
(* directory imported into another instance.                               *)
(***************************************************************************)
\* a live group: implied_ids holds the ids of the implied groups
LiveGroup(name, category, implied, users) ==
    [name |-> name, category_id |-> category, implied_ids |-> implied,
     users |-> users]

\* three parameters, one sequence (code S1, number_next 10), no
\* database.uuid yet; group 1 has two external ids, group 2 has none
SourceA ==
    [m \in Models |->
        CASE m = "ir.config_parameter" ->
               <<ParamRec("k1", "v1"), ParamRec("k2", "v2"),
                 ParamRec("k3", "v1")>>
          [] m = "res.groups" ->
               <<LiveGroup("g1", "Cat", <<>>, <<"admin">>),
                 LiveGroup("g2", None, <<>>, <<>>),
                 LiveGroup("g3", "Cat", <<1, 2>>, <<"admin", "alice">>)>>
          [] m = "ir.sequence" -> <<SeqRec("S1", "A", 10, 1)>>
          [] m = "ir.module.module" ->
               <<ModRec("base", "installed"), ModRec("sale", "uninstalled")>>
          [] m = "ir.model.data" ->
               <<XidRec("base", "group_g1", "res.groups", 1, FALSE),
                 XidRec("alt", "group_one", "res.groups", 1, TRUE),
                 XidRec("base", "seq_1", "ir.sequence", 2, FALSE)>>]

\* a database.uuid is stored; two sequences of different codes
SourceB ==
    [m \in Models |->
        CASE m = "ir.config_parameter" ->
               <<ParamRec("database.uuid", "u1"), ParamRec("k1", "v1")>>
          [] m = "res.groups" -> <<LiveGroup("g1", "Cat", <<>>, <<>>)>>
          [] m = "ir.sequence" ->
               <<SeqRec("S1", "LIVE", 25, 1), SeqRec("S2", "ALT", 7, 5)>>
          [] m = "ir.module.module" ->
               <<ModRec("base", "installed"), ModRec("sale", "to_upgrade")>>
          [] m = "ir.model.data" -> <<>>]

\* an empty database.uuid; two sequences of one code and one without code
SourceC ==
    [m \in Models |->
        CASE m = "ir.config_parameter" -> <<ParamRec("database.uuid", "")>>
          [] m = "res.groups" -> <<>>
          [] m = "ir.sequence" ->
               <<SeqRec("S1", "A", 10, 1), SeqRec("S1", "B", 20, 1),
                 SeqRec(None, "C", 30, 1)>>
          [] m = "ir.module.module" -> <<ModRec("base", "installed")>>
          [] m = "ir.model.data" -> <<>>]

Sources == {SourceA, SourceB, SourceC, FreshStore}

\* an instance with no record at all
BlankStore == [m \in Models |-> <<>>]

EmptyStores == {FreshStore, BlankStore}

\* an output directory that does not exist yet
EmptyDir == [n \in FileNames |-> Absent]

\* an output directory that holds an older snapshot
StaleDir ==
    [n \in FileNames |->
        IF n = ManifestFile THEN ValidManifest ELSE GoodDoc(TypeOfFile(n))]

\* the environment: after an export the directory is taken to another,
\* empty instance
ConnectTarget ==
    /\ pc \in {"idle", "returned"}
    /\ call = "export"
    /\ store \notin EmptyStores
    /\ store' \in EmptyStores
    /\ pc' = "idle"
    /\ call' = "connect"
    /\ UNCHANGED <<files, pos, imported_count, results, result, log,
                   pre, first, runs, rejects, advances, exported>>

ExportInit ==
    /\ \/ files = EmptyDir /\ store \in Sources
       \/ files = StaleDir /\ store = SourceB
    /\ rejects = {}
    /\ pc = "idle"
    /\ pos = 1
    /\ imported_count = 0
    /\ results = <<>>
    /\ call = "none"
    /\ result = NoResult
    /\ log = <<>>
    /\ pre = store
    /\ first = [pre |-> store, post |-> store]
    /\ runs = 0
    /\ advances = 0
    /\ exported = <<>>

ExportNext ==
    \/ Export
    \/ ConnectTarget
    \/ ImportStart
    \/ ImportNextType

ExportSpec == ExportInit /\ [][ExportNext]_vars

(***************************************************************************)
(* Properties.                                                             *)
(***************************************************************************)
\* the list of the document of type t, as the directory holds it
DocRecs(t) == files[FileOf(t)].recs

\* type t has ended in the current run, with the given outcome
TypeEnded(t, ok) ==
    \E k \in 1..Len(log) :
        log[k].ev = "end" /\ log[k].on = t /\ log[k].vals.success = ok

\* the store calls of the current run
OpsOn(model) ==
    {k \in 1..Len(log) : log[k].ev \in StoreOps /\ log[k].on = model}

\* an import call has returned and nothing happened since
Imported == pc = "returned" /\ call = "import"

Field(r, f) == IF f \in DOMAIN r THEN <<r[f]>> ELSE <<>>

\* live carries every field of rec, but for field k
CarriesExcept(live, rec, k) ==
    \A f \in DOMAIN rec \ {k} : f \in DOMAIN live /\ live[f] = rec[f]

\* the well-shaped records of a list: position -> has the lookup field
Keyed(recs, f) == {k \in 1..Len(recs) : IsMapping(recs[k]) /\ f \in DOMAIN recs[k]}

FirstWith(recs, f, v) ==
    CHOOSE k \in Keyed(recs, f) :
        /\ recs[k][f] = v
        /\ \A j \in Keyed(recs, f) : recs[j][f] = v => k <= j

LastWith(recs, f, v) ==
    CHOOSE k \in Keyed(recs, f) :
        /\ recs[k][f] = v
        /\ \A j \in Keyed(recs, f) : recs[j][f] = v => j <= k

\* C1. Sequence counter protection.  From the start of an import run on,
\* every sequence that was live when the run started keeps its number_next,
\* whatever the snapshot says.  Once the sequences have been reconciled
\* without a store rejection, for each snapshot record: if its code matched
\* a live sequence when the run started, every live sequence of that code
\* carries the other fields of the last snapshot record of that code; if it
\* matched none, exactly one sequence of that code was created, with the
\* number_next of the snapshot record that created it.
C1_SequenceCounterProtection ==
    LET M == "ir.sequence"
        recs == DocRecs("ir_sequences")
    IN  pc # "idle" =>
          /\ Len(store[M]) >= Len(pre[M])
          /\ \A i \in 1..Len(pre[M]) :
                Field(store[M][i], "number_next") = Field(pre[M][i], "number_next")
          /\ (TypeEnded("ir_sequences", TRUE) /\ rejects = {}) =>
                \A k \in Keyed(recs, "code") :
                    LET c == recs[k]["code"]
                        last == recs[LastWith(recs, "code", c)]
                        creator == recs[FirstWith(recs, "code", c)]
                        live == search(store, M, [code |-> c])
                    IN  IF search(pre, M, [code |-> c]) # {} THEN
                          /\ live = search(pre, M, [code |-> c])
                          /\ \A i \in live :
                                CarriesExcept(store[M][i], last, "number_next")
                        ELSE
                          /\ Cardinality(live) = 1
                          /\ \A i \in live :
                                /\ i > Len(pre[M])
                                /\ Field(store[M][i], "number_next")
                                      = Field(creator, "number_next")
                                /\ CarriesExcept(store[M][i], last, "number_next")

\* C1 witness: the snapshot was imported twice into a store in use, a live
\* counter advanced in between; the second run rewrote the prefix of a
\* sequence whose counter differs from the snapshot's, and left the counter
\* as the interim advance set it; a sequence of a new code was created with
\* the snapshot's counter.
C1_Witness ==
    LET M == "ir.sequence"
        recs == DocRecs("ir_sequences")
    IN  /\ Imported /\ runs = 2 /\ advances = 1 /\ result.success
        /\ \E i \in 1..Len(first.pre[M]), k \in Keyed(recs, "code") :
              /\ store[M][i]["code"] = recs[k]["code"]
              /\ store[M][i]["number_next"] # recs[k]["number_next"]
              /\ store[M][i]["number_next"] = pre[M][i]["number_next"]
              /\ store[M][i]["number_next"] # first.post[M][i]["number_next"]
              /\ store[M][i]["prefix"] = recs[k]["prefix"]
              /\ first.pre[M][i]["prefix"] # recs[k]["prefix"]
        /\ \E j \in 1..Len(store[M]) :
              /\ j > Len(first.pre[M])
              /\ \E k \in Keyed(recs, "code") : store[M][j] = recs[k]

\* the order the specification fixes
ExpectedOrder ==
    <<"ir_config_parameters", "res_groups", "ir_sequences", "module_states",
      "ir_model_data">>

IsBegin(e) == e.ev = "begin"
IsEnd(e) == e.ev = "end"

\* the types begun, and the types ended, in the current run, in order
Begun == SelectSeq(log, IsBegin)
Ended == SelectSeq(log, IsEnd)

\* type t ended before event k of the log
EndedBefore(t, k) ==
    \E j \in 1..(k - 1) : log[j].ev = "end" /\ log[j].on = t

\* C2. Dependency ordering.  In every import run, whatever the directory
\* holds, the types are begun in the order ir_config_parameters, res_groups,
\* ir_sequences, module_states, ir_model_data, each after the one before it
\* has ended; no call on ir.model.data is made before the four other types
\* have ended, and the end of ir_model_data is the last event of the run.
C2_DependencyOrdering ==
    /\ Len(Begun) <= Len(ExpectedOrder)
    /\ \A k \in 1..Len(Begun) : Begun[k].on = ExpectedOrder[k]
    /\ \A k \in 1..Len(Ended) : Ended[k].on = ExpectedOrder[k]
    /\ Len(Ended) <= Len(Begun) /\ Len(Begun) <= Len(Ended) + 1
    /\ \A k \in 1..Len(log) :
          /\ (log[k].ev = "begin" /\ log[k].on # ExpectedOrder[1]) =>
                log[k - 1].ev = "end"
          /\ (log[k].ev \in StoreOps /\ log[k].on = "ir.model.data") =>
                \A t \in Types \ {"ir_model_data"} : EndedBefore(t, k)
          /\ (log[k].ev = "end" /\ log[k].on = "ir_model_data") =>
                /\ k = Len(log)
                /\ \A t \in Types \ {"ir_model_data"} : EndedBefore(t, k)

\* C2 witness: a run has returned in which an external id was written after
\* records of other types were created, with one document absent.
C2_Witness ==
    /\ Imported /\ result.success
    /\ \E k \in OpsOn("ir.model.data") : log[k].ev \in {"create", "write"}
    /\ \E k \in OpsOn("ir.sequence") : log[k].ev = "create"
    /\ OpsOn("res.groups") # {}
    /\ \E t \in Types : ~files[FileOf(t)].exists

\* the number of create and write calls of the current run on the given models
Applied(models) ==
    Cardinality({k \in 1..Len(log) :
                    log[k].ev \in {"create", "write"} /\ log[k].on \in models})

RECURSIVE SumRecords(_, _)
SumRecords(rs, n) ==
    IF n = 0 THEN 0 ELSE rs[n].imported_records + SumRecords(rs, n - 1)

\* the events of the current run that touch type t: its begin, the read of
\* its document, a call on its model
Touches(t) ==
    {k \in 1..Len(log) :
        \/ log[k].ev \in {"begin", "end"} /\ log[k].on = t
        \/ log[k].ev = "read" /\ log[k].on = FileOf(t)
        \/ log[k].ev \in StoreOps /\ log[k].on = ModelOf(t)}

\* a type-level fault is reported for the type at position i of the order
FailedAt(i) ==
    /\ result.success = FALSE
    /\ "failed_config_type" \in DOMAIN result
    /\ result.failed_config_type = ExpectedOrder[i]
    /\ Len(results) = i
    /\ results[i].success = FALSE
    /\ \A j \in 1..(i - 1) : results[j].success
    /\ result.imported_count = SumRecords(results, i - 1)
    /\ \A j \in (i + 1)..Len(ExpectedOrder) : Touches(ExpectedOrder[j]) = {}

\* C3. Type-level abort.  When an import has returned and the document of
\* the type at position i could not be parsed while the types before it
\* succeeded, the result is a failure naming that type, imported_count is
\* the sum of the counts of the types before it, and no type after it was
\* begun, read or looked up.  For ir_sequences (position 3) the count is the
\* number of records applied to ir.config_parameter and res.groups, and
\* neither ir.module.module nor ir.model.data was touched.  Every reported
\* type-level failure has this shape.
C3_TypeLevelAbort ==
    Imported =>
      /\ \A i \in 1..Len(ExpectedOrder) :
            (/\ Len(results) >= i
             /\ files[FileOf(ExpectedOrder[i])].exists
             /\ files[FileOf(ExpectedOrder[i])].parse = "error") => FailedAt(i)
      /\ "failed_config_type" \in DOMAIN result => FailedAt(Len(results))
      /\ (/\ "failed_config_type" \in DOMAIN result
          /\ result.failed_config_type = "ir_sequences"
          /\ rejects = {}) =>
            /\ result.imported_count
                  = Applied({"ir.config_parameter", "res.groups"})
            /\ OpsOn("ir.module.module") = {}
            /\ OpsOn("ir.model.data") = {}

\* C3 witness: ir_sequences.yml is unparseable, a parameter and a group were
\* applied before it, and the failure names ir_sequences with count 2.
C3_Witness ==
    /\ Imported
    /\ files["ir_sequences.yml"].parse = "error"
    /\ "failed_config_type" \in DOMAIN result
    /\ result.failed_config_type = "ir_sequences"
    /\ result.imported_count = 2
    /\ Len(DocRecs("ir_config_parameters")) = 2
    /\ files["ir_model_data.yml"].exists

\* the manifest exists and parses to a non-empty mapping
ManifestValid ==
    /\ files[ManifestFile].exists
    /\ files[ManifestFile].parse = "map"
    /\ files[ManifestFile].truthy

\* C4. Manifest precondition (as claimed): unless manifest.yml exists and
\* parses to a non-empty mapping, an import never gets past the manifest
\* check: it returns a failure without failed_config_type, having read no
\* entity document and made no store call.
C4_ManifestPrecondition ==
    ~ManifestValid =>
      /\ pc # "importing"
      /\ Imported =>
            /\ result.success = FALSE
            /\ "failed_config_type" \notin DOMAIN result
            /\ log = <<Ev("read", ManifestFile, {}, EmptyDict)>>
            /\ store = pre

Configurable ==
    {"ir.config_parameter", "ir.sequence", "res.groups", "ir.model.data"}

EmptyTarget(st) == \A m \in Configurable : st[m] = <<>>

\* the document of type t is absent or lists complete records of its type
WellFormedDoc(t) ==
    LET d == files[FileOf(t)]
    IN  \/ ~d.exists
        \/ /\ d.parse = "map" /\ d.key = "list"
           /\ \A k \in 1..Len(d.recs) :
                 IsMapping(d.recs[k]) /\ DOMAIN d.recs[k] = DOMAIN GoodRec(t)

WellFormedSnapshot == ManifestValid /\ \A t \in Types : WellFormedDoc(t)

\* no two live records of model m agree on the fields fs
UniqueBy(st, m, fs) ==
    \A i, j \in 1..Len(st[m]) :
        (i # j) => \E f \in fs : Field(st[m][i], f) # Field(st[m][j], f)

\* C5. Idempotence.  When a well-formed snapshot has been imported twice in
\* a row into a target that was empty, with no store rejection, the Record
\* Store after the second import equals the Record Store after the first,
\* and holds one record per identity key.
C5_Idempotence ==
    (/\ Imported /\ runs = 2
     /\ rejects = {}
     /\ WellFormedSnapshot
     /\ EmptyTarget(first.pre)
     /\ pre = first.post) =>
        /\ store = first.post
        /\ UniqueBy(store, "ir.config_parameter", {"key"})
        /\ UniqueBy(store, "ir.sequence", {"code"})
        /\ UniqueBy(store, "res.groups", {"name"})
        /\ UniqueBy(store, "ir.model.data", {"module", "name"})

\* C5 witness: the second import of a snapshot with records of all four
\* types, one of them with two records of the same key, has returned; it
\* found every record and wrote to it.
C5_Witness ==
    /\ Imported /\ runs = 2 /\ rejects = {} /\ WellFormedSnapshot
    /\ EmptyTarget(first.pre) /\ pre = first.post
    /\ \A m \in Configurable : store[m] # <<>>
    /\ \E t \in Types :
          /\ Len(DocRecs(t)) = 2
          /\ DocRecs(t)[1][KeyField(t)] = DocRecs(t)[2][KeyField(t)]
          /\ DocRecs(t)[1] # DocRecs(t)[2]
    /\ \E k \in 1..Len(log) : log[k].ev = "write"
    /\ \A k \in 1..Len(log) : log[k].ev # "create"
    /\ result.success /\ store = first.post

\* exactly one record of the list lacks the key, the others are complete
OneWithoutKey(recs) ==
    /\ \A k \in 1..Len(recs) : IsMapping(recs[k])
    /\ Cardinality({k \in 1..Len(recs) : "key" \notin DOMAIN recs[k]}) = 1
    /\ \A k \in Keyed(recs, "key") : "value" \in DOMAIN recs[k]

\* C6. Record-level resilience.  When the list of ir_config_parameters holds
\* one record without `key` among complete records and the store rejects
\* nothing, the type succeeds, its count is the length of the list minus
\* one (which is the number of create and write calls made), and for every
\* other record a live parameter of its key holds the value of the last
\* record of that key.
C6_RecordLevelResilience ==
    LET M == "ir.config_parameter"
        d == files[FileOf("ir_config_parameters")]
    IN  (/\ Len(results) >= 1
         /\ rejects = {}
         /\ d.exists /\ d.parse = "map" /\ d.key = "list"
         /\ OneWithoutKey(d.recs)) =>
            /\ results[1].success
            /\ results[1].imported_records = Len(d.recs) - 1
            /\ results[1].imported_records = Applied({M})
            /\ \A k \in Keyed(d.recs, "key") :
                  LET key == d.recs[k]["key"]
                      last == d.recs[LastWith(d.recs, "key", key)]
                      live == search(store, M, [key |-> key])
                  IN  /\ live # {}
                      /\ \A i \in live : store[M][i]["value"] = last["value"]

\* C6 witness: the record without key comes first, the complete record after
\* it was created, and the count is 1.
C6_Witness ==
    LET recs == DocRecs("ir_config_parameters")
    IN  /\ Imported /\ result.success
        /\ Len(recs) = 2
        /\ "key" \notin DOMAIN recs[1]
        /\ "key" \in DOMAIN recs[2]
        /\ results[1].imported_records = 1
        /\ \E k \in OpsOn("ir.config_parameter") :
              log[k].ev = "create" /\ log[k].vals = recs[2]

\* a step of the validator
ValidateStep == call' = "validate" /\ advances' = advances /\ pc' = pc

OnlyManifest ==
    /\ files[ManifestFile].exists
    /\ \A t \in Types : ~files[FileOf(t)].exists

\* C7. Validator correctness.  What validate_import_path returns is valid
\* exactly when manifest.yml is in the directory; for a directory holding
\* only manifest.yml it is valid and lists the five optional documents as
\* missing; without manifest.yml it is invalid and its message names
\* manifest.yml.  A step of the validator changes neither the Record Store,
\* nor the log of store calls, nor any file.
C7_ValidatorCorrectness ==
    /\ [](call = "validate" =>
            /\ result.valid <=> files["manifest.yml"].exists
            /\ result.valid =>
                  \A k \in 1..Len(result.missing_optional) :
                      ~files[result.missing_optional[k]].exists
            /\ OnlyManifest =>
                  /\ result.valid
                  /\ result.missing_optional =
                        <<"ir_config_parameters.yml", "ir_sequences.yml",
                          "res_groups.yml", "ir_model_data.yml",
                          "module_states.yml">>
            /\ ~files["manifest.yml"].exists =>
                  /\ ~result.valid
                  /\ \E k \in 1..Len(result.message.names) :
                        result.message.names[k] = "manifest.yml")
    /\ [][ValidateStep =>
            store' = store /\ files' = files /\ log' = log]_vars

\* C7 witness: the validator has returned, after an import run, for a
\* directory that holds only manifest.yml.
C7_Witness ==
    /\ call = "validate" /\ OnlyManifest
    /\ result.valid /\ Len(result.missing_optional) = 5
    /\ runs = 1

\* C8. ModuleState is observational.  The live module records are, in every
\* state, the ones the store started with, and every call a run makes on
\* ir.module.module is a search.
C8_ModuleStateObservational ==
    LET M == "ir.module.module"
    IN  /\ store[M] = pre[M]
        /\ store[M] = first.pre[M]
        /\ \A k \in OpsOn(M) : log[k].ev = "search"

\* C8 witness: a run has compared and counted a snapshot module whose state
\* differs from the live one.
C8_Witness ==
    LET M == "ir.module.module"
        recs == DocRecs("module_states")
    IN  /\ Imported /\ result.success
        /\ results[4].imported_records >= 1
        /\ \E k \in OpsOn(M), j \in 1..Len(recs) :
              /\ log[k].vals = [name |-> recs[j]["name"]]
              /\ \E i \in log[k].ids : store[M][i]["state"] # recs[j]["state"]

\* C9. UserGroup reconciliation.  From the start of a run on, every group
\* that was live keeps all its fields, and every group added since carries
\* the name field only.  Once the groups have been reconciled without a
\* store rejection, for each snapshot group: if its name was live at the
\* start the live groups of that name are the same ones, else exactly one
\* group of that name was created.
C9_UserGroupReconciliation ==
    LET M == "res.groups"
        recs == DocRecs("res_groups")
    IN  /\ Len(store[M]) >= Len(pre[M])
        /\ \A i \in 1..Len(pre[M]) : store[M][i] = pre[M][i]
        /\ \A i \in 1..Len(store[M]) :
              i > Len(first.pre[M]) => DOMAIN store[M][i] = {"name"}
        /\ \A k \in OpsOn(M) : log[k].ev \in {"search", "create"}
        /\ (TypeEnded("res_groups", TRUE) /\ rejects = {}) =>
              \A k \in Keyed(recs, "name") :
                  LET n == recs[k]["name"]
                      live == search(store, M, [name |-> n])
                  IN  IF search(pre, M, [name |-> n]) # {}
                      THEN live = search(pre, M, [name |-> n])
                      ELSE Cardinality(live) = 1
                           /\ \A i \in live : i > Len(pre[M])

\* C9 witness: a run met a snapshot group whose name was live with other
\* members, and left it; it created a group for a snapshot record that
\* carries members, with the name only.
C9_Witness ==
    LET M == "res.groups"
        recs == DocRecs("res_groups")
    IN  /\ Imported /\ result.success
        /\ \E k \in Keyed(recs, "name"), i \in 1..Len(pre[M]) :
              /\ pre[M][i]["name"] = recs[k]["name"]
              /\ pre[M][i]["users"] # recs[k]["users"]
              /\ store[M][i] = pre[M][i]
        /\ \E k \in Keyed(recs, "name"), i \in 1..Len(store[M]) :
              /\ i > Len(pre[M])
              /\ store[M][i] = [name |-> recs[k]["name"]]
              /\ recs[k]["users"] # <<>>

\* C10. Partial snapshots.  A type whose document is absent succeeds with
\* zero records, its document is not read and no call is made on its model.
\* When every document of the directory is absent or well-formed the import
\* succeeds after attempting all five types in order.  For a directory that
\* holds only a manifest the total is 0, no store call is made and the
\* Record Store is unchanged.
C10_PartialSnapshots ==
    /\ \A j \in 1..Len(results) :
          ~files[FileOf(ExpectedOrder[j])].exists =>
              /\ results[j].success
              /\ results[j].imported_records = 0
              /\ Touches(ExpectedOrder[j]) \subseteq
                    {k \in 1..Len(log) : log[k].ev \in {"begin", "end"}}
    /\ (Imported /\ ManifestOk(read_yaml(files, ManifestFile))
          /\ \A t \in Types : WellFormedDoc(t)) =>
              /\ result.success
              /\ Len(results) = Len(ExpectedOrder)
              /\ result.imported_config_types = 5
              /\ \A j \in 1..Len(results) : results[j].config_type = ExpectedOrder[j]
              /\ \A t \in Types : TypeEnded(t, TRUE)
    /\ (Imported /\ ManifestOk(read_yaml(files, ManifestFile))
          /\ OnlyManifest) =>
              /\ result.success
              /\ result.total_imported_records = 0
              /\ store = pre
              /\ \A k \in 1..Len(log) : log[k].ev \notin StoreOps

\* C10 witness: with two documents absent, among them the first of the
\* order, the import succeeded and applied records of the types present.
C10_Witness ==
    /\ Imported /\ result.success
    /\ ~files["ir_config_parameters.yml"].exists
    /\ ~files["module_states.yml"].exists
    /\ files["res_groups.yml"].exists
    /\ files["ir_sequences.yml"].exists
    /\ files["ir_model_data.yml"].exists
    /\ result.total_imported_records = 3
    /\ store # pre

\* the fields the routine of each type looks its records up by
IdentityKey(t) ==
    IF t = "ir_model_data" THEN {"module", "name"} ELSE {KeyField(t)}

KeyOf(t, r) == [f \in IdentityKey(t) |-> r[f]]

\* the fields of a live record that the snapshot sets on every upsert
Controlled(t) ==
    IF t = "ir_config_parameters" THEN {"value"}
    ELSE {"module", "name", "model", "res_id", "noupdate"}

\* the document of type t holds a list of complete records
CompleteList(t) ==
    LET d == files[FileOf(t)]
    IN  /\ d.exists /\ d.parse = "map" /\ d.key = "list"
        /\ \A k \in 1..Len(d.recs) :
              IsMapping(d.recs[k]) /\ DOMAIN d.recs[k] = DOMAIN GoodRec(t)

\* the last record of the list of type t that carries the key of record k
LastOfKey(t, recs, k) ==
    CHOOSE j \in 1..Len(recs) :
        /\ KeyOf(t, recs[j]) = KeyOf(t, recs[k])
        /\ \A i \in 1..Len(recs) :
              KeyOf(t, recs[i]) = KeyOf(t, recs[k]) => i <= j

\* the identity keys of the list of type t that were not live when the run
\* started
NewKeys(t, recs) ==
    {KeyOf(t, recs[k]) : k \in 1..Len(recs)}
        \ {key \in {KeyOf(t, recs[k]) : k \in 1..Len(recs)} :
              search(pre, ModelOf(t), key) # {}}

\* C11. Upsert by identity key, for ConfigParameter (key) and
\* ExternalIdMapping (module, name).  Once the type has been reconciled from
\* a list of complete records without a store rejection: its count is the
\* length of the list; for every record of the list the live records of its
\* key are the ones that were live at the start of the run, or else one
\* record created by the run, and they carry the snapshot-controlled fields
\* of the last record of the list with that key; each create follows a
\* lookup of the same key that found nothing, so there is one create per
\* key that was not live and one write for every other record.
C11_UpsertByIdentityKey ==
    \A t \in {"ir_config_parameters", "ir_model_data"} :
      LET M == ModelOf(t)
          recs == DocRecs(t)
          ops == OpsOn(M)
      IN  (TypeEnded(t, TRUE) /\ rejects = {} /\ CompleteList(t)) =>
            /\ \E j \in 1..Len(results) :
                  /\ results[j].config_type = t
                  /\ results[j].imported_records = Len(recs)
            /\ \A k \in 1..Len(recs) :
                  LET key == KeyOf(t, recs[k])
                      last == recs[LastOfKey(t, recs, k)]
                      live == search(store, M, key)
                      before == search(pre, M, key)
                  IN  /\ live # {}
                      /\ \A i \in live, f \in Controlled(t) :
                            store[M][i][f] = last[f]
                      /\ IF before # {} THEN live = before
                         ELSE /\ Cardinality(live) = 1
                              /\ \A i \in live : i > Len(pre[M])
            /\ \A k \in ops :
                  log[k].ev = "create" =>
                      /\ log[k - 1].ev = "search" /\ log[k - 1].on = M
                      /\ log[k - 1].ids = {}
                      /\ log[k - 1].vals = KeyOf(t, log[k].vals)
            /\ Cardinality({k \in ops : log[k].ev = "create"})
                  = Cardinality(NewKeys(t, recs))
            /\ Cardinality({k \in ops : log[k].ev = "write"})
                  = Len(recs) - Cardinality(NewKeys(t, recs))

\* C11 witness: a list of two records with the same identity key and
\* different values was imported where the key was not live: the first was
\* created, the second written over it, both were counted and one live
\* record carries the values of the second.
C11_Witness ==
    \E t \in {"ir_config_parameters", "ir_model_data"} :
      LET M == ModelOf(t)
          recs == DocRecs(t)
      IN  /\ Imported /\ result.success /\ rejects = {} /\ CompleteList(t)
          /\ Len(recs) = 2 /\ recs[1] # recs[2]
          /\ KeyOf(t, recs[1]) = KeyOf(t, recs[2])
          /\ search(pre, M, KeyOf(t, recs[1])) = {}
          /\ Cardinality(search(store, M, KeyOf(t, recs[1]))) = 1
          /\ \A i \in search(store, M, KeyOf(t, recs[1])) :
                \A f \in Controlled(t) : store[M][i][f] = recs[2][f]
          /\ \E k \in OpsOn(M) : log[k].ev = "create" /\ log[k].vals = recs[1]
          /\ \E k \in OpsOn(M) : log[k].ev = "write"
          /\ \E j \in 1..Len(results) :
                results[j].config_type = t /\ results[j].imported_records = 2

\* the last export of the behaviour
LastExport == exported[Len(exported)]

\* the (key, value) pairs of the parameters of an instance
ParamPairs(st) ==
    {Project(st["ir.config_parameter"][i], ParamFields) :
        i \in 1..Len(st["ir.config_parameter"])}

\* the sequences of an instance have pairwise different codes, none null
DistinctCodes(st) ==
    /\ UniqueBy(st, "ir.sequence", {"code"})
    /\ \A i \in 1..Len(st["ir.sequence"]) :
          Attr(st["ir.sequence"][i], "code") # None

\* C12. Round trip.  When an instance whose parameters have distinct keys
\* and whose sequences have distinct non-null codes was exported with
\* success, and the directory has then been imported into an instance with
\* no configuration record, the import has succeeded, the target holds
\* exactly the (key, value) pairs of the parameters the export found, one
\* parameter per pair, and exactly one sequence per exported code, whose
\* eight exported fields, number_next included, are those of the source.
C12_RoundTrip ==
    (/\ Imported /\ exported # <<>>
     /\ LastExport.res.success
     /\ EmptyTarget(pre)
     /\ UniqueBy(LastExport.pre, "ir.config_parameter", {"key"})
     /\ DistinctCodes(LastExport.pre)) =>
        LET P == "ir.config_parameter"
            S == "ir.sequence"
            source == LastExport.pre
        IN  /\ result.success
            /\ ParamPairs(store) = ParamPairs(source)
            /\ Len(store[P]) = Len(source[P])
            /\ Len(store[S]) = Len(source[S])
            /\ \A i \in 1..Len(source[S]) :
                  LET live == search(store, S, [code |-> source[S][i]["code"]])
                  IN  /\ Cardinality(live) = 1
                      /\ \A j \in live :
                            store[S][j] = Project(source[S][i], SequenceFields)

\* C12 witness: an instance with three parameters and the sequence S1 at
\* number_next 10 was exported and the directory imported into an instance
\* without any record; the target holds three parameters and S1 at 10.
C12_Witness ==
    /\ Imported /\ result.success /\ exported # <<>>
    /\ LastExport.res.success
    /\ pre = BlankStore
    /\ Len(LastExport.pre["ir.config_parameter"]) = 3
    /\ Len(store["ir.config_parameter"]) = 3
    /\ Len(store["ir.sequence"]) = 1
    /\ store["ir.sequence"][1]["code"] = "S1"
    /\ store["ir.sequence"][1]["number_next"] = 10
    /\ \E k \in OpsOn("ir.sequence") : log[k].ev = "create"

IsWriteYaml(e) == e.ev = "write_yaml"

\* the files the last export wrote, in the order it wrote them
Written ==
    LET w == SelectSeq(log, IsWriteYaml)
    IN  [k \in 1..Len(w) |-> w[k].on]

RECURSIVE SumDocs(_, _)
SumDocs(fs, ts) ==
    IF ts = {} THEN 0
    ELSE LET t == CHOOSE x \in ts : TRUE
         IN  Len(fs[FileOf(t)].recs) + SumDocs(fs, ts \ {t})

\* C13. Export fails as a unit on a projection fault.  When an export has
\* returned: if one of the five projections raised, the result is a failure
\* carrying that fault and no file was written, the directory being as the
\* export found it; in any case every projection the run made precedes its
\* first write; on success the run wrote the five documents in the order of
\* `configs` and manifest.yml last, each document lists the projection of
\* its type, exported_configs is 5 and total_records is the sum of the
\* lengths of the five lists.
C13_ExportFailsAsUnit ==
    call = "export" =>
      /\ LastExport.fault.do = "project" =>
            /\ result.success = FALSE
            /\ result.error = LastExport.fault
            /\ files = LastExport.dir
            /\ Written = <<>>
      /\ \A k, j \in 1..Len(log) :
            (log[k].ev = "project" /\ log[j].ev = "write_yaml") => k < j
      /\ result.success =>
            /\ Written =
                  <<"ir_config_parameters.yml", "ir_sequences.yml",
                    "res_groups.yml", "ir_model_data.yml",
                    "module_states.yml", "manifest.yml">>
            /\ \A t \in Types :
                  /\ files[FileOf(t)].exists
                  /\ files[FileOf(t)].key = "list"
                  /\ files[FileOf(t)].recs = export_method(t, LastExport.pre)
            /\ files["manifest.yml"].exists
            /\ result.exported_configs = 5
            /\ result.total_records = SumDocs(files, Types)

\* C13 witness: the last of the five projections raised in an export of an
\* instance that holds records of every type, into a directory that did not
\* exist: the export returned the failure and the directory is still empty.
C13_Witness ==
    /\ call = "export"
    /\ LastExport.fault = Step("project", "module_states")
    /\ result.success = FALSE
    /\ \A m \in Models : LastExport.pre[m] # <<>>
    /\ \A n \in FileNames : ~files[n].exists
    /\ Len(log) = 4

\* the document of the type at position i of the order, in a run that has
\* reached that type
DocAt(i) == files[FileOf(ExpectedOrder[i])]

\* the document exists and holds a list under the name of its type
HoldsList(d) == d.exists /\ d.parse = "map" /\ d.key = "list"

\* C14. Record-level faults never halt a type (as claimed): whenever a type
\* whose document holds a list has been reconciled, whatever the elements
\* of the list (records with a missing field, scalars) and whatever store
\* call was rejected, the type has succeeded and every record of the list
\* that carries the lookup field was looked up.
C14_RecordFaultsNeverHalt ==
    \A i \in 1..Len(results) :
        LET t == ExpectedOrder[i]
            recs == DocAt(i).recs
        IN  HoldsList(DocAt(i)) =>
              /\ results[i].success
              /\ \A k \in Keyed(recs, KeyField(t)) :
                    \E e \in OpsOn(ModelOf(t)) :
                        /\ log[e].ev = "search"
                        /\ log[e].vals = KeyOf(t, recs[k])

\* the current import run got past the manifest check
PassedManifest == pc = "importing" \/ Begun # <<>>

\* the manifest as read_yaml and "if not manifest" see it
ManifestAccepted ==
    /\ files[ManifestFile].exists
    /\ files[ManifestFile].parse # "error"
    /\ files[ManifestFile].parse # "none"
    /\ files[ManifestFile].truthy

\* the validator has been called on the directory right after an import of
\* it returned
ValidatedAfterImport == call = "validate" /\ pc = "returned" /\ runs >= 1

\* C15 (as claimed).  The validator agrees with the importer: called on a
\* directory an import has just returned from, validate_import_path
\* reports valid exactly when that import got past its manifest check.
C15_ValidatorAgreesWithImporter ==
    ValidatedAfterImport => (result.valid <=> PassedManifest)

\* C15 (amended).  An import gets past its manifest check exactly when
\* manifest.yml exists, parses and parses to a non-empty value; called on
\* the same directory the validator reports valid exactly when manifest.yml
\* exists; so the validator reports valid whenever the import got past the
\* check, and not conversely.
C15_ImporterImpliesValidator ==
    /\ runs >= 1 /\ pc # "idle" => (PassedManifest <=> ManifestAccepted)
    /\ ValidatedAfterImport =>
          /\ result.valid <=> files[ManifestFile].exists
          /\ PassedManifest => result.valid

\* C15 witness: the import of a directory whose manifest.yml is an empty
\* document was rejected at the manifest check, and the validator then
\* reported the directory valid.
C15_Witness ==
    /\ ValidatedAfterImport
    /\ files[ManifestFile].exists
    /\ files[ManifestFile].parse = "none"
    /\ ~PassedManifest
    /\ result.valid

\* the document exists and parses, and is not a mapping that holds a list
\* under the name of its type
MalformedDoc(d) ==
    /\ d.exists /\ d.parse # "error"
    /\ ~(d.parse = "map" /\ d.key = "list")

\* the document gives no records: an empty document, or a mapping without
\* the name of the type
NoRecords(d) ==
    d.exists /\ d.parse \in {"none", "map"} /\ d.key = "absent"

\* the document is not a mapping, or holds null or a number under the name
\* of its type
Unusable(d) ==
    /\ d.exists
    /\ \/ d.parse = "other"
       \/ d.parse = "map" /\ d.key \in {"none", "int"}

\* C16 (as claimed).  Malformed documents degrade, they do not abort:
\* a type whose document exists and parses but is malformed ends with
\* success, and the import goes on.
C16_MalformedDegrades ==
    \A i \in 1..Len(results) :
        MalformedDoc(DocAt(i)) =>
            /\ results[i].success
            /\ "failed_config_type" \in DOMAIN result =>
                  result.failed_config_type # ExpectedOrder[i]

\* C16 (amended).  A type whose document is empty or is a mapping without
\* the type's key ends with success and zero records, no call is made on
\* its model, and the import goes on with the next type.  A type whose
\* document is not a mapping, or maps the type's key to null or to a
\* number, fails at the type level: it is the last type attempted, the
\* import returns a failure naming it, and its model is never called.
C16_MalformedDocuments ==
    \A i \in 1..Len(results) :
        LET t == ExpectedOrder[i]
        IN  /\ NoRecords(DocAt(i)) =>
                  /\ results[i].success
                  /\ results[i].imported_records = 0
                  /\ OpsOn(ModelOf(t)) = {}
                  /\ i < Len(ExpectedOrder) =>
                        \/ pc = "importing" /\ pos > i
                        \/ Len(results) > i
            /\ Unusable(DocAt(i)) =>
                  /\ ~results[i].success
                  /\ Len(results) = i
                  /\ pc # "importing"
                  /\ OpsOn(ModelOf(t)) = {}
                  /\ Imported => FailedAt(i)

\* C16 witness: res_groups.yml maps res_groups to null; the import applied
\* a parameter, failed at res_groups and attempted nothing after it.
C16_Witness ==
    /\ Imported
    /\ files["res_groups.yml"].key = "none"
    /\ FailedAt(2)
    /\ result.imported_count = 1
    /\ files["ir_sequences.yml"].exists
    /\ OpsOn("ir.sequence") = {}

\* the records of the list that name a live module and carry a state
Compared(recs) ==
    {k \in 1..Len(recs) :
        /\ IsMapping(recs[k])
        /\ "name" \in DOMAIN recs[k] /\ "state" \in DOMAIN recs[k]
        /\ search(store, "ir.module.module", [name |-> recs[k]["name"]]) # {}}

\* C17. ModuleState counting.  Once module_states has been reconciled from
\* a list, without a store rejection, its count is the number of records
\* of the list that name a live module and carry a state, whether or not
\* that state is the live one, and no module record has changed; when the
\* import has succeeded its total is the sum of the five counts, this one
\* included.
C17_ModuleStateCounting ==
    LET M == "ir.module.module"
        recs == DocRecs("module_states")
    IN  /\ (Len(results) >= 4 /\ results[4].success /\ rejects = {}
              /\ HoldsList(DocAt(4))) =>
                /\ results[4].imported_records = Cardinality(Compared(recs))
                /\ store[M] = pre[M]
        /\ (Imported /\ result.success) =>
                /\ Len(results) = 5
                /\ result.total_imported_records = SumRecords(results, 5)

\* C17 witness: the list names the live module base twice, once with the
\* live state and once with another, and a module that is not live; the
\* count is 2 and is part of the total.
C17_Witness ==
    LET M == "ir.module.module"
        recs == DocRecs("module_states")
    IN  /\ Imported /\ result.success /\ rejects = {}
        /\ Len(recs) = 2
        /\ \A k \in 1..2 :
              /\ IsMapping(recs[k])
              /\ DOMAIN recs[k] = DOMAIN GoodRec("module_states")
              /\ recs[k]["name"] = "base"
        /\ \E k \in 1..2 : recs[k]["state"] = store[M][1]["state"]
        /\ \E k \in 1..2 : recs[k]["state"] # store[M][1]["state"]
        /\ results[4].imported_records = 2
        /\ result.total_imported_records
              = 2 + results[1].imported_records + results[2].imported_records
                  + results[3].imported_records + results[5].imported_records
        /\ result.total_imported_records >= 3

\* C18. Export is read-only on the Record Store (as claimed): when an
\* export has returned, the Record Store is the one the export started
\* from, and on success the ir_config_parameters document lists the
\* parameters the store holds at that moment.
C18_ExportReadOnly ==
    call = "export" =>
      /\ store = LastExport.pre
      /\ result.success =>
            files["ir_config_parameters.yml"].recs = export_config_params(store)

\* the instance has a database.uuid parameter with a non-empty value
HasUuid(st) == get_param(st, "database.uuid") \notin {None, ""}

\* C18 (amended).  An export changes nothing in the Record Store but the
\* database.uuid parameter: the records of every other model and every
\* other parameter are as the export found them; when the instance holds a
\* non-empty database.uuid, or the export fails before it builds the
\* manifest, or the lookup of the uuid fails, the Record Store is unchanged;
\* otherwise one database.uuid parameter with a generated value has been
\* created, or the empty one has been given a generated value.  On success
\* the ir_config_parameters document lists the parameters the store held
\* when the export started.
C18_ExportWritesOnlyUuid ==
    call = "export" =>
      LET P == "ir.config_parameter"
          before == LastExport.pre
          stored == search(before, P, [key |-> "database.uuid"])
      IN  /\ \A m \in Models \ {P} : store[m] = before[m]
          /\ \A i \in 1..Len(before[P]) :
                i \notin stored => store[P][i] = before[P][i]
          /\ \A k \in 1..Len(log) :
                log[k].ev \in {"create", "write"} =>
                    /\ log[k].on = P
                    /\ log[k].vals["value"] \in NewUuids
          /\ (\/ HasUuid(before)
              \/ LastExport.fault.do \in {"project", "write", "uuid"}) =>
                store = before
          /\ (~HasUuid(before) /\ LastExport.fault.do \in {"none", "manifest"}) =>
                /\ HasUuid(store)
                /\ get_param(store, "database.uuid") \in NewUuids
                /\ Len(store[P]) = IF stored = {} THEN Len(before[P]) + 1
                                   ELSE Len(before[P])
          /\ result.success =>
                files["ir_config_parameters.yml"].recs
                    = export_config_params(before)

\* C18 witness: an instance with three parameters and no database.uuid was
\* exported with success; it now holds a fourth parameter, database.uuid,
\* and the ir_config_parameters document lists the three.
C18_Witness ==
    /\ call = "export" /\ result.success
    /\ Len(LastExport.pre["ir.config_parameter"]) = 3
    /\ Len(store["ir.config_parameter"]) = 4
    /\ store["ir.config_parameter"][4]["key"] = "database.uuid"
    /\ Len(files["ir_config_parameters.yml"].recs) = 3
    /\ store # LastExport.pre

\* the create and write calls the current run has made, and the module
\* comparisons it has counted
AppliedSoFar ==
    Cardinality({k \in 1..Len(log) : log[k].ev \in {"create", "write"}})
        + (IF Len(results) >= 4 /\ results[4].success
           THEN results[4].imported_records ELSE 0)

TypeOfModel(m) == CHOOSE t \in Types : ModelOf(t) = m

Creates(m) == {k \in OpsOn(m) : log[k].ev = "create"}

\* C19. No rollback and exact partial count (as claimed): when an import
\* has returned a type-level failure, with no store rejection, every
\* record the run created or wrote is in the Record Store, no type after
\* the failing one was touched, and imported_count is not smaller than the
\* number of records the run wrote or compared.
C19_ExactPartialCount ==
    (Imported /\ "failed_config_type" \in DOMAIN result /\ rejects = {}) =>
        /\ \A m \in Models :
              /\ Len(store[m]) = Len(pre[m]) + Cardinality(Creates(m))
              /\ \A k \in Creates(m) :
                    \E i \in search(store, m, KeyOf(TypeOfModel(m), log[k].vals)) :
                        i > Len(pre[m])
        /\ \A j \in (Len(results) + 1)..Len(ExpectedOrder) :
              Touches(ExpectedOrder[j]) = {}
        /\ result.imported_count >= AppliedSoFar

====
